---- MODULE Spec2Model ----
(***************************************************************************)
(* Resume processing pipeline of vipulswarup/resume-parser.                *)
(*                                                                         *)
(*   app/parser_llm.py        parse_with_llm: Groq 8B, Groq 70B, OpenAI,   *)
(*                            each call wrapped in a tenacity retry        *)
(*   app/background_tasks.py  process_resume_background, one thread per    *)
(*                            start_background_processing call             *)
(*   app/save_to_db.py        save_parsed_candidate                        *)
(*   app/main.py              upload_resume (creates the Resume row),      *)
(*                            ui_upload_resume                             *)
(*   app/s3_log_handler.py    S3LogHandler                                 *)
(*                                                                         *)
(* The specifications share the variables:                                 *)
(*   SpecLLM     one call of parse_with_llm, with the log of provider      *)
(*               calls; SpecLLMFair adds that the call goes on             *)
(*   Spec        the threads of process_resume_background over the         *)
(*               database; SpecFair adds that every thread is scheduled    *)
(*   SpecS3      one S3LogHandler and the threads that use it              *)
(*   SpecSkills  the skills loop of save_parsed_candidate in concurrent    *)
(*               sessions                                                  *)
(*   SpecUI      the requests of ui_upload_resume                          *)
(***************************************************************************)
EXTENDS Integers, Sequences, FiniteSets

\* ------------------------------------------------------------------------
\* Bounds of the model
\* ------------------------------------------------------------------------
\* Resume rows upload_resume may create (ids 1..NumResumes).
NumResumes == 2
\* Calls of start_background_processing, one thread each.
MaxRuns == 2
\* Threads that log through the S3LogHandler.
NumEmitters == 2
\* emit calls on the handler.
MaxRecords == 3
\* close calls on the handler (an explicit close, then logging.shutdown).
MaxCloses == 2
\* batch_size of the handler (100 by default).
BatchSize == 2
\* Sessions that run save_parsed_candidate's skills loop at the same time.
NumSavers == 2
\* Requests of ui_upload_resume.
NumRequests == 2

\* ------------------------------------------------------------------------
\* Program constants
\* ------------------------------------------------------------------------
\* stop_after_attempt(3) of the tenacity decorator.
StopAfterAttempt == 3
\* len(extracted_text.strip()) < 50
MinTextLen == 50
\* resume.parsed_confidence = 90 in save_parsed_candidate.
PlaceholderConfidence == 90
\* parsed_data.get("confidence", 0) in process_resume_background.
DefaultConfidence == 0
\* parsed_confidence=0 of the Resume row upload_resume creates.
UploadConfidence == 0

\* SQL NULL in an integer column (candidate_id, parsed_confidence); every
\* real id is >= 1 and every confidence the model draws is >= 0.
NULL == 0 - 1
\* SQL NULL in the parsed_model column.
NoModel == "NULL"
\* A payload without the key "confidence".
ABSENT == 0 - 2

Groq8B == "Groq:llama-3.1-8b-instant"
Groq70B == "Groq:llama-3.1-70b-versatile"
OpenAIMini == "OpenAI:gpt-4o-mini"
ProviderOrder == <<Groq8B, Groq70B, OpenAIMini>>

ErrNoClients == "No LLM clients available - check API keys"
ErrAllFailed == "Parsing failed with Groq and OpenAI"

\* ------------------------------------------------------------------------
\* Provider responses
\* ------------------------------------------------------------------------
\* The value of the key "confidence" in a provider's JSON object, when the
\* provider writes one (the prompt does not ask for it).
ConfChoices == {ABSENT, 85, 150}
\* How the fields save_parsed_candidate converts are written:
\*   "ok"             every field converts
\*   "bad_exp_years"  float(total_experience_years) raises (save_to_db:22)
\*   "bad_grad_year"  int(graduation_year) raises (save_to_db:45)
\*   "no_full_name"   no full_name: the INSERT of the Candidate violates
\*                    NOT NULL (models.py:11) and db.flush() raises
\*                    IntegrityError (save_to_db:28)
FieldShapes == {"ok", "bad_exp_years", "bad_grad_year", "no_full_name"}
Data == [confidence : ConfChoices, fields : FieldShapes]
NoData == [confidence |-> ABSENT, fields |-> "none"]

\* A response body is a sequence of tokens: a run of backticks, the word
\* json, a JSON object, or prose.
Fence == [k |-> "fence", v |-> NoData]
JsonTag == [k |-> "json_tag", v |-> NoData]
Prose == [k |-> "prose", v |-> NoData]
Obj(d) == [k |-> "object", v |-> d]

PlainBody(d) == <<Obj(d)>>
FencedBody(d) == <<Fence, JsonTag, Obj(d), Fence>>
BareFencedBody(d) == <<Fence, Obj(d), Fence>>
ProseBody(d) == <<Prose, Obj(d)>>

\* What one call of chat.completions.create does: it raises (a timeout or
\* rate limit: transient; an authentication failure: permanent) or it
\* returns a body.
Timeout == [api |-> "timeout", body |-> <<>>]
AuthError == [api |-> "auth", body |-> <<>>]
Resp(b) == [api |-> "ok", body |-> b]

RECURSIVE StripLeft(_)
StripLeft(s) == IF s # <<>> /\ Head(s).k = "fence" THEN StripLeft(Tail(s)) ELSE s

RECURSIVE StripRight(_)
StripRight(s) ==
    IF s # <<>> /\ s[Len(s)].k = "fence"
    THEN StripRight(SubSeq(s, 1, Len(s) - 1))
    ELSE s

\* _clean_json: when the body starts with a fence, strip the backticks at
\* both ends and then a leading "json".
clean_json(raw) ==
    IF raw # <<>> /\ Head(raw).k = "fence"
    THEN LET content == StripRight(StripLeft(raw))
         IN  IF content # <<>> /\ Head(content).k = "json_tag"
             THEN Tail(content)
             ELSE content
    ELSE raw

\* json.loads succeeds on exactly one JSON value.
json_loads_ok(content) == Len(content) = 1 /\ content[1].k = "object"

Payload(model, d) ==
    [error |-> "", model_used |-> model, confidence |-> d.confidence, fields |-> d.fields]
ErrorResult(msg) ==
    [error |-> msg, model_used |-> NoModel, confidence |-> ABSENT, fields |-> "none"]

\* The body of _call_groq / _call_openai, run once on the outcome of its API
\* call: the parsed object tagged with the model, or an exception.
call_once(model, out) ==
    IF out.api # "ok" THEN [ok |-> FALSE, value |-> ErrorResult(out.api)]
    ELSE LET content == clean_json(out.body)
         IN  IF json_loads_ok(content)
             THEN [ok |-> TRUE, value |-> Payload(model, content[1].v)]
             ELSE [ok |-> FALSE, value |-> ErrorResult("JSONDecodeError")]

\* A stop condition that gives up one attempt short of the ceiling.
StopEarly(n, out) == n >= StopAfterAttempt - 1
\* @retry(stop=stop_after_attempt(3)) with the default retry predicate: any
\* exception is retried until attempt n has reached the ceiling.
retry_stop(n, out) == n >= StopAfterAttempt

\* The decorated call: outs[n] is the outcome of the n-th API call.  Returns
\* the outcomes of the calls made and the result (RetryError when it gave up).
RECURSIVE call_with_retry(_, _, _)
call_with_retry(model, outs, n) ==
    LET r == call_once(model, outs[n])
    IN  IF r.ok THEN [made |-> n, ok |-> TRUE, value |-> r.value]
        ELSE IF retry_stop(n, outs[n]) \/ n >= Len(outs)
             THEN [made |-> n, ok |-> FALSE, value |-> ErrorResult("RetryError")]
             ELSE call_with_retry(model, outs, n + 1)

\* One entry of the call log per API call made.
LogOf(model, outs, made) ==
    [i \in 1..made |-> [provider |-> model, out |-> outs[i]]]

\* A try block that tags every payload with the first model.
TryMistagged(enabled, model, outs) ==
    IF ~enabled THEN [calls |-> <<>>, returned |-> FALSE, value |-> ErrorResult("skipped")]
    ELSE LET r == call_with_retry(model, outs, 1)
         IN  [calls |-> LogOf(model, outs, r.made), returned |-> r.ok,
              value |-> IF r.ok THEN [r.value EXCEPT !.model_used = Groq8B] ELSE r.value]

\* A try block that runs the decorated call a second time when the first
\* gave up.
TryTwice(enabled, model, outs) ==
    IF ~enabled THEN [calls |-> <<>>, returned |-> FALSE, value |-> ErrorResult("skipped")]
    ELSE LET r == call_with_retry(model, outs, 1)
             again == call_with_retry(model, outs, 1)
         IN  IF r.ok
             THEN [calls |-> LogOf(model, outs, r.made), returned |-> TRUE,
                   value |-> r.value]
             ELSE [calls |-> LogOf(model, outs, r.made) \o LogOf(model, outs, again.made),
                   returned |-> again.ok, value |-> again.value]

\* One try block of parse_with_llm: `if client: return _call(...)`, with
\* `except Exception` swallowing the failure.
try_provider(enabled, model, outs) ==
    IF ~enabled THEN [calls |-> <<>>, returned |-> FALSE, value |-> ErrorResult("skipped")]
    ELSE LET r == call_with_retry(model, outs, 1)
         IN  [calls |-> LogOf(model, outs, r.made), returned |-> r.ok, value |-> r.value]

\* get_openai_client: the lazily created client, once a key is configured.
get_openai_client(client, key) == client \/ key

\* A test that reports no client when either one is missing.
NoClientsEither(groq, openai) == ~groq \/ ~openai

\* `if not groq_available and not openai_available`
no_clients(groq, openai) == ~groq /\ ~openai

\* parse_with_llm as a function of the configuration and of the outcomes
\* beh[p][n] of the n-th call to the p-th provider.
parse_with_llm(groq, openai, beh) ==
    IF no_clients(groq, openai) THEN [calls |-> <<>>, value |-> ErrorResult(ErrNoClients)]
    ELSE LET t1 == try_provider(groq, Groq8B, beh[1])
         IN  IF t1.returned THEN [calls |-> t1.calls, value |-> t1.value]
             ELSE LET t2 == try_provider(groq, Groq70B, beh[2])
                  IN  IF t2.returned
                      THEN [calls |-> t1.calls \o t2.calls, value |-> t2.value]
                      ELSE LET t3 == try_provider(openai, OpenAIMini, beh[3])
                           IN  IF t3.returned
                               THEN [calls |-> t1.calls \o t2.calls \o t3.calls,
                                     value |-> t3.value]
                               ELSE [calls |-> t1.calls \o t2.calls \o t3.calls,
                                     value |-> ErrorResult(ErrAllFailed)]

\* ------------------------------------------------------------------------
\* State
\* ------------------------------------------------------------------------
ResumeIds == 1..NumResumes
\* A resume_id that has no resumes row.
MissingId == NumResumes + 1
Threads == 1..MaxRuns

VARIABLES
    \* parser_llm.py module state
    groq_client,        \* TRUE when the module created a Groq client
    openai_api_key,     \* TRUE when OPENAI_API_KEY is set
    openai_client,      \* TRUE once get_openai_client has created the client
    \* one call of parse_with_llm (SpecLLM)
    llm_pc,             \* "idle", "groq8b", "groq70b", "openai", "returned"
    llm_calls,          \* the API calls made so far, in order
    llm_ret,            \* the value returned
    \* the database, as committed
    rows,               \* ids of the resumes rows
    processing_status,  \* the status process_resume_background last assigned to
                        \* the row and committed (models.Resume declares no
                        \* column of that name; "none" before the upload)
    candidate_id,       \* resumes.candidate_id
    parsed_confidence,  \* resumes.parsed_confidence
    parsed_model,       \* resumes.parsed_model
    candidates,         \* the candidates rows, each with the resume it was made for
    \* the threads of process_resume_background
    started,            \* number of start_background_processing calls so far
    pc,                 \* where each thread is
    rid,                \* its resume_id argument
    resume,             \* TRUE when its local `resume` is a row, FALSE when None
    text,               \* its extracted_text
    parsed,             \* its parsed_data
    cand,               \* its candidate_id, or NULL (ids are opaque and unique:
                        \* the model names a Candidate by the thread whose
                        \* session flushed it)
    \* the log
    events,             \* the records log_processing_event has written for the
                        \* orchestrator, each with its status and resume id
    \* one S3LogHandler (SpecS3)
    log_buffer,         \* self.log_buffer, the records by their numbers
    buffer_lock,        \* the thread that holds self.buffer_lock, or Free
    s3_pc,              \* where each thread that uses the handler is
    s3_puts,            \* the put_object calls made: the batch and the outcome
    s3_emitted,         \* number of emit calls so far
    s3_closes,          \* number of close calls so far
    \* save_parsed_candidate's skills loop in concurrent sessions (SpecSkills)
    master_skills,      \* the committed master_skills rows
    candidate_skills,   \* the committed candidate_skills rows
    sess,               \* each session: where it is, the skills still to do,
                        \* the rows it has flushed and not committed
    \* the requests of ui_upload_resume (SpecUI)
    ui                  \* each request: where it is, what parse_with_llm
                        \* returned, the Resume row it committed

llm_vars == <<llm_pc, llm_calls, llm_ret>>
cfg_vars == <<groq_client, openai_api_key>>
db_vars == <<rows, processing_status, candidate_id, parsed_confidence, parsed_model,
             candidates>>
\* the threads and the log they write
thread_vars == <<started, pc, rid, resume, text, parsed, cand, events>>
s3_vars == <<log_buffer, buffer_lock, s3_pc, s3_puts, s3_emitted, s3_closes>>
skill_vars == <<master_skills, candidate_skills, sess>>
\* what the pipeline of parse_with_llm and process_resume_background leaves
\* alone: the S3 handler, the sessions of the skills loop, the UI requests
side_vars == <<s3_vars, skill_vars, ui>>
vars == <<groq_client, openai_api_key, openai_client, llm_pc, llm_calls, llm_ret,
          rows, processing_status, candidate_id, parsed_confidence, parsed_model,
          candidates, started, pc, rid, resume, text, parsed, cand, events,
          log_buffer, buffer_lock, s3_pc, s3_puts, s3_emitted, s3_closes,
          master_skills, candidate_skills, sess, ui>>

\* A text, run-length encoded: lead whitespace characters, then body
\* characters that begin and end with a non-blank, then trail whitespace.
Txt(lead, body, trail) == [lead |-> lead, body |-> body, trail |-> trail]
NoText == Txt(0, 0, 0)
NoParsed == ErrorResult("")

\* str.strip() and len()
strip(t) == Txt(0, t.body, 0)
len(t) == t.lead + t.body + t.trail

\* The state before any upload and any thread, with the module-level
\* clients drawn by InitConfig.
InitConfig ==
    /\ groq_client \in BOOLEAN
    /\ openai_api_key \in BOOLEAN
    /\ openai_client = FALSE

InitLLM ==
    /\ llm_pc = "idle"
    /\ llm_calls = <<>>
    /\ llm_ret = NoParsed

InitDB ==
    /\ rows = {}
    /\ processing_status = [r \in ResumeIds |-> "none"]
    /\ candidate_id = [r \in ResumeIds |-> NULL]
    /\ parsed_confidence = [r \in ResumeIds |-> NULL]
    /\ parsed_model = [r \in ResumeIds |-> NoModel]
    /\ candidates = {}

\* The columns models.Resume maps to the resumes table.
ResumeColumns ==
    {"id", "candidate_id", "source_filename", "file_url", "parsed_confidence",
     "uploaded_at", "parsed_model"}

\* What the resumes table holds as the status of row r.  A commit writes
\* the mapped columns; an attribute that is no column stays on the
\* session's object and goes with the session.
stored_status(r) ==
    IF "processing_status" \in ResumeColumns THEN processing_status[r] ELSE "absent"

InitThreads ==
    /\ started = 0
    /\ pc = [t \in Threads |-> "idle"]
    /\ rid = [t \in Threads |-> 1]
    /\ resume = [t \in Threads |-> FALSE]
    /\ text = [t \in Threads |-> NoText]
    /\ parsed = [t \in Threads |-> NoParsed]
    /\ cand = [t \in Threads |-> NULL]
    /\ events = {}

\* buffer_lock when no thread holds it.
Free == 0
Emitters == 1..NumEmitters
\* self.flush_thread, running _background_flush.
Flusher == NumEmitters + 1
\* The thread that calls close.
Closer == NumEmitters + 2
S3Procs == 1..(NumEmitters + 2)

\* S3LogHandler.__init__ with an S3 client (s3_available True; without one
\* emit and close return at once and the buffer stays empty): an empty
\* buffer, a free lock, the flush thread started and asleep.
InitS3 ==
    /\ log_buffer = <<>>
    /\ buffer_lock = Free
    /\ s3_pc = [p \in S3Procs |-> IF p = Flusher THEN "bg_sleep" ELSE "idle"]
    /\ s3_puts = <<>>
    /\ s3_emitted = 0
    /\ s3_closes = 0

Savers == 1..NumSavers
NoSkills == <<>>
\* A session that has not called save_parsed_candidate.
IdleSession == [pc |-> "idle", skills |-> NoSkills, todo |-> NoSkills, flushed |-> {}]

\* An empty master_skills table: every skill name is unseen.
InitSkills ==
    /\ master_skills = {}
    /\ candidate_skills = {}
    /\ sess = [s \in Savers |-> IdleSession]

Requests == 1..NumRequests
InitUI == ui = [q \in Requests |-> [pc |-> "idle", parsed |-> NoParsed, row |-> NULL]]

Init == InitConfig /\ InitLLM /\ InitDB /\ InitThreads /\ InitS3 /\ InitSkills /\ InitUI

\* The deployments the threads are run in: every client configured, or none
\* (SpecLLM runs parse_with_llm in all four).
InitOrch == Init /\ groq_client = openai_api_key

\* ------------------------------------------------------------------------
\* SpecLLM: one call of parse_with_llm, try block by try block
\* ------------------------------------------------------------------------
D1 == [confidence |-> 85, fields |-> "ok"]
D2 == [confidence |-> ABSENT, fields |-> "ok"]
\* A JSON object that lacks fields of the prompt's template, full_name
\* among them.
D3 == [confidence |-> ABSENT, fields |-> "no_full_name"]
\* The outcomes an API call is drawn from.
Outcomes ==
    {Timeout, AuthError, Resp(PlainBody(D1)), Resp(FencedBody(D2)),
     Resp(BareFencedBody(D1)), Resp(ProseBody(D2)), Resp(PlainBody(D3))}
Attempts == [1..StopAfterAttempt -> Outcomes]

\* parse_with_llm up to the first try block.
LLMBegin ==
    /\ llm_pc = "idle"
    /\ openai_client' = get_openai_client(openai_client, openai_api_key)
    /\ IF no_clients(groq_client, openai_client')
       THEN llm_pc' = "returned" /\ llm_ret' = ErrorResult(ErrNoClients)
       ELSE llm_pc' = "groq8b" /\ llm_ret' = llm_ret
    /\ UNCHANGED <<llm_calls, cfg_vars, side_vars, db_vars, thread_vars>>

LLMTry(at, next, enabled, model) ==
    /\ llm_pc = at
    /\ \E outs \in Attempts :
         LET t == try_provider(enabled, model, outs)
         IN  /\ llm_calls' = llm_calls \o t.calls
             /\ IF t.returned
                THEN llm_pc' = "returned" /\ llm_ret' = t.value
                ELSE IF next = "returned"
                     THEN llm_pc' = "returned" /\ llm_ret' = ErrorResult(ErrAllFailed)
                     ELSE llm_pc' = next /\ llm_ret' = llm_ret
    /\ UNCHANGED <<openai_client, cfg_vars, side_vars, db_vars, thread_vars>>

LLMGroq8B == LLMTry("groq8b", "groq70b", groq_client, Groq8B)
LLMGroq70B == LLMTry("groq70b", "openai", groq_client, Groq70B)
LLMOpenAI ==
    LLMTry("openai", "returned", get_openai_client(openai_client, openai_api_key),
           OpenAIMini)

NextLLM == LLMBegin \/ LLMGroq8B \/ LLMGroq70B \/ LLMOpenAI

SpecLLM == Init /\ [][NextLLM]_vars

\* parse_with_llm runs in the thread that called it: while every provider
\* call returns or raises, the call goes on to its next try block.
SpecLLMFair == SpecLLM /\ WF_vars(NextLLM)

\* ------------------------------------------------------------------------
\* Spec: upload_resume, start_background_processing and the threads of
\* process_resume_background
\* ------------------------------------------------------------------------
\* The texts extract_text_from_file is drawn from: empty, one character
\* short once stripped, and exactly long enough.
Texts == {Txt(0, 0, 0), Txt(3, MinTextLen - 1, 3), Txt(0, MinTextLen, 0)}

\* The text check without the strip.
InsufficientUnstripped(t) == len(t) = 0 \/ len(t) < MinTextLen
\* `not extracted_text or len(extracted_text.strip()) < 50`
insufficient_text(t) == len(t) = 0 \/ len(strip(t)) < MinTextLen

\* The provider behaviours the threads draw from.  A thread reads only the
\* value parse_with_llm returns: every provider times out on every call, or
\* every provider answers every call with the object d.  An object whose
\* fields do not convert never reaches the line that reads its confidence,
\* so it is drawn without one.  The threads copy a confidence and never
\* compare or compute with it: one written value, the one out of range,
\* stands for every written value.
OrchConfidences == {ABSENT, 150}
OrchData ==
    {d \in Data :
       \/ d.fields = "ok" /\ d.confidence \in OrchConfidences
       \/ d.fields # "ok" /\ d.confidence = ABSENT}
OrchBehaviours ==
    {[p \in 1..3 |-> [n \in 1..StopAfterAttempt |-> o]] :
     o \in {Timeout} \cup {Resp(PlainBody(d)) : d \in OrchData}}

\* upload_resume: a new resumes row.  The row carries no processing_status
\* of its own; the model calls that initial value "pending".
UploadResume ==
    /\ Cardinality(rows) < NumResumes
    /\ LET r == Cardinality(rows) + 1
       IN  /\ rows' = rows \cup {r}
           /\ processing_status' = [processing_status EXCEPT ![r] = "pending"]
           /\ candidate_id' = [candidate_id EXCEPT ![r] = NULL]
           /\ parsed_confidence' = [parsed_confidence EXCEPT ![r] = UploadConfidence]
           /\ parsed_model' = [parsed_model EXCEPT ![r] = NoModel]
    /\ UNCHANGED <<candidates, openai_client, cfg_vars, side_vars, llm_vars,
                   thread_vars>>

\* A start that runs the first step of the run in the caller.
StartSynchronously(r) ==
    /\ r \in rows \cup {MissingId}
    /\ started < MaxRuns
    /\ started' = started + 1
    /\ pc' = [pc EXCEPT ![started + 1] = "extract"]
    /\ rid' = [rid EXCEPT ![started + 1] = r]
    /\ resume' = [resume EXCEPT ![started + 1] = r \in rows]
    /\ processing_status' =
         IF r \in rows THEN [processing_status EXCEPT ![r] = "processing"]
         ELSE processing_status
    /\ UNCHANGED <<text, parsed, cand, events, openai_client, cfg_vars, side_vars, llm_vars,
                   rows, candidate_id, parsed_confidence, parsed_model, candidates>>

\* start_background_processing: a new thread for every call, for an
\* uploaded resume or for an id that has no row.
StartBackgroundProcessing(r) ==
    /\ r \in rows \cup {MissingId}
    /\ started < MaxRuns
    /\ started' = started + 1
    /\ pc' = [pc EXCEPT ![started + 1] = "begin"]
    /\ rid' = [rid EXCEPT ![started + 1] = r]
    /\ UNCHANGED <<resume, text, parsed, cand, events, openai_client, cfg_vars, side_vars,
                   llm_vars, db_vars>>

\* The end of a run: db.close() drops what the session did not commit, and
\* the thread's locals go with the thread.  A run that ends at the text
\* check leaves the text it checked on record (keep_text).
Finish(t, keep_text) ==
    /\ pc' = [pc EXCEPT ![t] = "done"]
    /\ rid' = [rid EXCEPT ![t] = 1]
    /\ resume' = [resume EXCEPT ![t] = FALSE]
    /\ text' = [text EXCEPT ![t] = IF keep_text THEN text[t] ELSE NoText]
    /\ parsed' = [parsed EXCEPT ![t] = NoParsed]
    /\ cand' = [cand EXCEPT ![t] = NULL]

\* An exception leaves process_resume_background: `finally` closes the
\* session, and the thread dies with the exception.
Raise(t) ==
    /\ pc' = [pc EXCEPT ![t] = "raised"]
    /\ rid' = [rid EXCEPT ![t] = 1]
    /\ resume' = [resume EXCEPT ![t] = FALSE]
    /\ text' = [text EXCEPT ![t] = NoText]
    /\ parsed' = [parsed EXCEPT ![t] = NoParsed]
    /\ cand' = [cand EXCEPT ![t] = NULL]

\* log_processing_event has written its record.
Emit(t, kind) == events' = events \cup {[kind |-> kind, resume_id |-> rid[t]]}

\* resume.processing_status = s; db.commit()
SetStatus(r, s) == processing_status' = [processing_status EXCEPT ![r] = s]

\* `if resume: resume.processing_status = "processing"; db.commit()`
BeginStatus(t) ==
    IF rid[t] \in rows
    THEN SetStatus(rid[t], "processing")
    ELSE UNCHANGED processing_status

\* Lines 19-27: open the session, load the row, commit "processing".
Begin(t) ==
    /\ pc[t] = "begin"
    /\ resume' = [resume EXCEPT ![t] = rid[t] \in rows]
    /\ BeginStatus(t)
    /\ pc' = [pc EXCEPT ![t] = "extract"]
    /\ UNCHANGED <<rows, candidate_id, parsed_confidence, parsed_model, candidates,
                   started, rid, text, parsed, cand, events, openai_client,
                   cfg_vars, side_vars,
                   llm_vars>>

\* Lines 73-93, `except Exception`: the handler loads the row again and
\* commits "failed"; the commit is the session's, so it also commits a
\* Candidate the session had flushed (flushed = TRUE).  Then the failure
\* event, which is written or raises out of the handler, and db.close().
Handler(t, flushed) ==
    /\ IF rid[t] \in rows
       THEN /\ SetStatus(rid[t], "failed")
            /\ candidates' =
                 IF flushed
                 THEN candidates \cup {[id |-> t, resume_id |-> rid[t]]}
                 ELSE candidates
       ELSE UNCHANGED <<processing_status, candidates>>
    /\ \/ Emit(t, "failure") /\ Finish(t, FALSE)
       \/ UNCHANGED events /\ Raise(t)

\* The handler on a session whose flush has failed: the session's
\* transaction is rolled back and inactive, so the query of line 77 raises
\* (PendingRollbackError) and the exception leaves the function with
\* nothing committed and no event.
HandlerSessionInactive(t) ==
    /\ UNCHANGED <<processing_status, candidates, events>>
    /\ Raise(t)

\* `resume.processing_status = "failed"; db.commit(); return` of lines 35-37
\* and 45-47.  With `resume` None the assignment raises AttributeError.
FailAndReturn(t) ==
    IF resume[t]
    THEN /\ SetStatus(rid[t], "failed")
         /\ Finish(t, pc[t] = "check")
         /\ UNCHANGED <<candidates, events>>
    ELSE Handler(t, FALSE)

\* Lines 29-31: extract_text_from_file raises or returns a text.  The
\* function is imported from app.text_extract, which defines extract_text
\* only; the call is modelled by its outcomes.
Extract(t) ==
    /\ pc[t] = "extract"
    /\ \/ Handler(t, FALSE)
       \/ \E x \in Texts :
            /\ pc' = [pc EXCEPT ![t] = "check"]
            /\ text' = [text EXCEPT ![t] = x]
            /\ UNCHANGED <<processing_status, candidates, rid, resume, parsed, cand,
                           events>>
    /\ UNCHANGED <<rows, candidate_id, parsed_confidence, parsed_model,
                   started, openai_client, cfg_vars, side_vars, llm_vars>>

\* A text check that hands a sufficient text straight to the save.
CheckTextSkipsParser(t) ==
    /\ pc[t] = "check"
    /\ IF insufficient_text(text[t])
       THEN FailAndReturn(t)
       ELSE /\ pc' = [pc EXCEPT ![t] = "save"]
            /\ UNCHANGED <<processing_status, candidates, rid, resume, text, parsed,
                           cand, events>>
    /\ UNCHANGED <<rows, candidate_id, parsed_confidence, parsed_model,
                   started, openai_client, cfg_vars, side_vars, llm_vars>>

\* Lines 33-37: too little text fails the resume and returns.
CheckText(t) ==
    /\ pc[t] = "check"
    /\ IF insufficient_text(text[t])
       THEN FailAndReturn(t)
       ELSE /\ pc' = [pc EXCEPT ![t] = "parse"]
            /\ UNCHANGED <<processing_status, candidates, rid, resume, text, parsed,
                           cand, events>>
    /\ UNCHANGED <<rows, candidate_id, parsed_confidence, parsed_model,
                   started, openai_client, cfg_vars, side_vars, llm_vars>>

\* Lines 41-47: parse_with_llm, and the failure it may return.
Parse(t) ==
    /\ pc[t] = "parse"
    /\ openai_client' = get_openai_client(openai_client, openai_api_key)
    /\ \E beh \in OrchBehaviours :
         LET ret == parse_with_llm(groq_client, openai_client', beh).value
         IN  IF ret.error # ""
             THEN FailAndReturn(t)
             ELSE /\ pc' = [pc EXCEPT ![t] = "save"]
                  /\ parsed' = [parsed EXCEPT ![t] = ret]
                  /\ text' = [text EXCEPT ![t] = NoText]
                  /\ UNCHANGED <<processing_status, candidates, rid, resume, cand,
                                 events>>
    /\ UNCHANGED <<rows, candidate_id, parsed_confidence, parsed_model,
                   started, cfg_vars, side_vars, llm_vars>>

\* save_parsed_candidate, lines 78-86: link the row when it exists, commit.
SaveLink(t) ==
    /\ IF rid[t] \in rows
       THEN /\ candidate_id' = [candidate_id EXCEPT ![rid[t]] = t]
            /\ parsed_confidence' =
                 [parsed_confidence EXCEPT ![rid[t]] = PlaceholderConfidence]
            /\ parsed_model' = [parsed_model EXCEPT ![rid[t]] = parsed[t].model_used]
       ELSE UNCHANGED <<candidate_id, parsed_confidence, parsed_model>>
    /\ candidates' = candidates \cup {[id |-> t, resume_id |-> rid[t]]}

\* Line 51: save_parsed_candidate.  float() raises before the Candidate is
\* added; the flush of a Candidate without a name raises and leaves the
\* session inactive; int() raises after the Candidate was flushed;
\* otherwise the Candidate, its children and the link are committed, the
\* status untouched.
Save(t) ==
    /\ pc[t] = "save"
    /\ IF parsed[t].fields = "bad_exp_years"
       THEN /\ Handler(t, FALSE)
            /\ UNCHANGED <<candidate_id, parsed_confidence, parsed_model>>
       ELSE IF parsed[t].fields = "no_full_name"
       THEN /\ HandlerSessionInactive(t)
            /\ UNCHANGED <<candidate_id, parsed_confidence, parsed_model>>
       ELSE IF parsed[t].fields = "bad_grad_year"
       THEN /\ Handler(t, TRUE)
            /\ UNCHANGED <<candidate_id, parsed_confidence, parsed_model>>
       ELSE /\ SaveLink(t)
            /\ cand' = [cand EXCEPT ![t] = t]
            /\ pc' = [pc EXCEPT ![t] = "complete"]
            /\ UNCHANGED <<processing_status, rid, resume, text, parsed, events>>
    /\ UNCHANGED <<rows, started, openai_client, cfg_vars, side_vars, llm_vars>>

\* parsed_data.get("confidence", 0)
get_confidence(p) == IF p.confidence = ABSENT THEN DefaultConfidence ELSE p.confidence

\* Lines 54-59: `if resume:` set the link, the confidence, the model and
\* "completed", and commit.  parsed_data and candidate_id are read once
\* more, by the success event only.
Complete(t) ==
    /\ pc[t] = "complete"
    /\ IF resume[t]
       THEN /\ candidate_id' = [candidate_id EXCEPT ![rid[t]] = cand[t]]
            /\ parsed_confidence' =
                 [parsed_confidence EXCEPT ![rid[t]] = get_confidence(parsed[t])]
            /\ parsed_model' = [parsed_model EXCEPT ![rid[t]] = parsed[t].model_used]
            /\ SetStatus(rid[t], "completed")
       ELSE UNCHANGED <<candidate_id, parsed_confidence, parsed_model, processing_status>>
    /\ pc' = [pc EXCEPT ![t] = "log"]
    /\ parsed' = [parsed EXCEPT ![t] = NoParsed]
    /\ cand' = [cand EXCEPT ![t] = NULL]
    /\ UNCHANGED <<rows, candidates, started, rid, resume, text, events, openai_client,
                   cfg_vars, side_vars, llm_vars>>

\* Lines 61-71 and 93: the success event is written and the run ends, or
\* log_processing_event raises into the handler of line 73.
LogSuccess(t) ==
    /\ pc[t] = "log"
    /\ \/ /\ Emit(t, "success")
          /\ Finish(t, FALSE)
          /\ UNCHANGED <<processing_status, candidates>>
       \/ Handler(t, FALSE)
    /\ UNCHANGED <<rows, candidate_id, parsed_confidence, parsed_model, started,
                   openai_client, cfg_vars, side_vars, llm_vars>>

Next ==
    \/ UploadResume
    \/ \E r \in ResumeIds \cup {MissingId} : StartBackgroundProcessing(r)
    \/ \E t \in Threads : Begin(t)
    \/ \E t \in Threads : Extract(t)
    \/ \E t \in Threads : CheckText(t)
    \/ \E t \in Threads : Parse(t)
    \/ \E t \in Threads : Save(t)
    \/ \E t \in Threads : Complete(t)
    \/ \E t \in Threads : LogSuccess(t)

Spec == InitOrch /\ [][Next]_vars

\* The next step of thread t's run.
ThreadStep(t) ==
    \/ Begin(t) \/ Extract(t) \/ CheckText(t) \/ Parse(t) \/ Save(t)
    \/ Complete(t) \/ LogSuccess(t)

\* Every started thread is scheduled, and every call it makes returns or
\* raises: a run that can take its next step takes it.
SpecFair == Spec /\ \A t \in Threads : WF_vars(ThreadStep(t))

\* ------------------------------------------------------------------------
\* SpecS3: one S3LogHandler, the threads that log through it, its flush
\* thread and the thread that closes it
\* ------------------------------------------------------------------------
\* The deployment the side specifications run in: both clients configured.
InitQuiet == Init /\ groq_client /\ openai_api_key

pipeline_vars == <<cfg_vars, openai_client, llm_vars, db_vars, thread_vars>>

\* The records the buffer has accepted so far; the next one gets the next
\* number.
Accepted == s3_emitted - Cardinality({e \in Emitters : s3_pc[e] = "emit_lock"})

\* _flush_buffer has returned, and so does its caller: emit and close
\* return, _background_flush goes back to sleep.
AfterFlush(p) ==
    s3_pc' = [s3_pc EXCEPT ![p] = IF p = Flusher THEN "bg_sleep" ELSE "idle"]

\* A flush that empties the buffer whatever put_object did.
ClearAnyway(buf, ok) == <<>>
\* Lines 86-97: log_buffer.clear() follows put_object inside the try, so a
\* put_object that raises skips it.
buffer_after_put(buf, ok) == IF ok THEN <<>> ELSE buf

\* emit up to line 50: the record is formatted and the thread asks for the
\* lock.
S3EmitCall(e) ==
    /\ s3_pc[e] = "idle"
    /\ s3_emitted < MaxRecords
    /\ s3_emitted' = s3_emitted + 1
    /\ s3_pc' = [s3_pc EXCEPT ![e] = "emit_lock"]
    /\ UNCHANGED <<log_buffer, buffer_lock, s3_puts, s3_closes, pipeline_vars,
                   skill_vars, ui>>

\* Lines 50-60: with the lock, append; below batch_size leave the `with`
\* and return, at batch_size call _flush_buffer with the lock still held.
S3EmitLocked(e) ==
    /\ s3_pc[e] = "emit_lock"
    /\ buffer_lock = Free
    /\ log_buffer' = Append(log_buffer, Accepted + 1)
    /\ IF Len(log_buffer') >= BatchSize
       THEN /\ buffer_lock' = e
            /\ s3_pc' = [s3_pc EXCEPT ![e] = "flush_check"]
       ELSE /\ buffer_lock' = Free
            /\ s3_pc' = [s3_pc EXCEPT ![e] = "idle"]
    /\ UNCHANGED <<s3_puts, s3_emitted, s3_closes, pipeline_vars, skill_vars, ui>>

\* Lines 101-102: the flush thread wakes after flush_interval.
S3Wake ==
    /\ s3_pc[Flusher] = "bg_sleep"
    /\ s3_pc' = [s3_pc EXCEPT ![Flusher] = "bg_lock"]
    /\ UNCHANGED <<log_buffer, buffer_lock, s3_puts, s3_emitted, s3_closes,
                   pipeline_vars, skill_vars, ui>>

\* Lines 104-106: with the lock, call _flush_buffer when the buffer holds
\* something; otherwise leave the `with` and sleep again.
S3BackgroundLocked ==
    /\ s3_pc[Flusher] = "bg_lock"
    /\ buffer_lock = Free
    /\ IF log_buffer # <<>>
       THEN /\ buffer_lock' = Flusher
            /\ s3_pc' = [s3_pc EXCEPT ![Flusher] = "flush_check"]
       ELSE /\ buffer_lock' = Free
            /\ s3_pc' = [s3_pc EXCEPT ![Flusher] = "bg_sleep"]
    /\ UNCHANGED <<log_buffer, s3_puts, s3_emitted, s3_closes, pipeline_vars,
                   skill_vars, ui>>

\* Lines 110-113: close calls _flush_buffer without the lock.
S3Close ==
    /\ s3_pc[Closer] = "idle"
    /\ s3_closes < MaxCloses
    /\ s3_closes' = s3_closes + 1
    /\ s3_pc' = [s3_pc EXCEPT ![Closer] = "flush_check"]
    /\ UNCHANGED <<log_buffer, buffer_lock, s3_puts, s3_emitted, pipeline_vars,
                   skill_vars, ui>>

\* _flush_buffer, line 67: an empty buffer returns at once (a caller that
\* holds the lock releases it on its way out); otherwise the thread asks
\* for the lock at line 71.
S3FlushCheck(p) ==
    /\ s3_pc[p] = "flush_check"
    /\ IF log_buffer = <<>>
       THEN /\ AfterFlush(p)
            /\ buffer_lock' = IF buffer_lock = p THEN Free ELSE buffer_lock
       ELSE /\ s3_pc' = [s3_pc EXCEPT ![p] = "flush_lock"]
            /\ UNCHANGED buffer_lock
    /\ UNCHANGED <<log_buffer, s3_puts, s3_emitted, s3_closes, pipeline_vars,
                   skill_vars, ui>>

\* _flush_buffer, lines 71-97: threading.Lock is not reentrant, so the
\* thread gets the lock only when no thread holds it, itself included.
\* With the lock: put_object of the whole buffer as one batch, which
\* succeeds or raises; then the lock is released and the caller goes on.
S3FlushLocked(p) ==
    /\ s3_pc[p] = "flush_lock"
    /\ buffer_lock = Free
    /\ IF log_buffer = <<>>
       THEN UNCHANGED <<log_buffer, s3_puts>>
       ELSE \E ok \in BOOLEAN :
              /\ s3_puts' = Append(s3_puts, [batch |-> log_buffer, ok |-> ok])
              /\ log_buffer' = buffer_after_put(log_buffer, ok)
    /\ buffer_lock' = Free
    /\ AfterFlush(p)
    /\ UNCHANGED <<s3_emitted, s3_closes, pipeline_vars, skill_vars, ui>>

\* The next step of thread p on the handler.
S3Step(p) ==
    \/ p \in Emitters /\ (S3EmitCall(p) \/ S3EmitLocked(p))
    \/ p = Flusher /\ (S3Wake \/ S3BackgroundLocked)
    \/ p = Closer /\ S3Close
    \/ S3FlushCheck(p)
    \/ S3FlushLocked(p)

NextS3 ==
    \/ \E e \in Emitters : S3EmitCall(e)
    \/ \E e \in Emitters : S3EmitLocked(e)
    \/ S3Wake
    \/ S3BackgroundLocked
    \/ S3Close
    \/ \E p \in S3Procs : S3FlushCheck(p)
    \/ \E p \in S3Procs : S3FlushLocked(p)

SpecS3 == InitQuiet /\ [][NextS3]_vars

\* ------------------------------------------------------------------------
\* SpecSkills: the skills loop of save_parsed_candidate in sessions that
\* run at the same time, on a database that enforces the unique
\* skill_name (PostgreSQL, READ COMMITTED)
\* ------------------------------------------------------------------------
SkillNames == {"python", "sql"}
\* parsed.get("skills", []) of the payloads.
SkillLists == {<<"python">>, <<"sql">>, <<"python", "sql">>, <<"sql", "python">>}

\* The master_skills row session s inserts for name n, and the link of the
\* session's Candidate to a row.
SkillRow(s, n) == [skill_name |-> n, by |-> s]
SkillLink(s, m) == [candidate_id |-> s, skill |-> m]

\* The sessions other than s that have inserted name n and not committed.
HoldersOf(s, n) == {o \in Savers \ {s} : n \in sess[o].flushed}

\* Session s is at the INSERT of its next skill and waits for the
\* transaction of session o to end.
BlockedOn(s, o) ==
    /\ sess[s].pc = "insert"
    /\ o \in HoldersOf(s, Head(sess[s].todo))

\* The session ends with an exception: close rolls back what it flushed.
SkillRaise(s) ==
    /\ sess' = [sess EXCEPT ![s].pc = "raised", ![s].todo = NoSkills, ![s].flushed = {}]
    /\ UNCHANGED <<master_skills, candidate_skills>>

\* save_parsed_candidate is called with a payload; lines 14-61 concern the
\* session's own Candidate.
SkillsBegin(s) ==
    /\ sess[s].pc = "idle"
    /\ \E l \in SkillLists :
         sess' = [sess EXCEPT ![s] = [pc |-> "query", skills |-> l, todo |-> l,
                                      flushed |-> {}]]
    /\ UNCHANGED <<master_skills, candidate_skills, pipeline_vars, s3_vars, ui>>

\* Lines 64-67 and 71: the next skill is looked up among the committed rows
\* and the session's own; a row found is linked, otherwise the session goes
\* to insert one.  After the last skill comes the commit.
SkillQuery(s) ==
    /\ sess[s].pc = "query"
    /\ IF sess[s].todo = NoSkills
       THEN sess' = [sess EXCEPT ![s].pc = "commit"]
       ELSE LET n == Head(sess[s].todo)
            IN  IF (\E m \in master_skills : m.skill_name = n) \/ n \in sess[s].flushed
                THEN sess' = [sess EXCEPT ![s].todo = Tail(@)]
                ELSE sess' = [sess EXCEPT ![s].pc = "insert"]
    /\ UNCHANGED <<master_skills, candidate_skills, pipeline_vars, s3_vars, ui>>

\* Lines 68-71: db.add(MasterSkill) and db.flush().  The INSERT raises
\* IntegrityError when a committed row has the name; it waits while another
\* open transaction has inserted the name; it raises when the two wait for
\* each other (deadlock detected); otherwise the row is flushed.
SkillInsert(s) ==
    /\ sess[s].pc = "insert"
    /\ LET n == Head(sess[s].todo)
       IN  IF \E m \in master_skills : m.skill_name = n
           THEN SkillRaise(s)
           ELSE IF HoldersOf(s, n) # {}
           THEN /\ \E o \in HoldersOf(s, n) : BlockedOn(o, s)
                /\ SkillRaise(s)
           ELSE /\ sess' = [sess EXCEPT ![s].flushed = @ \cup {n}, ![s].todo = Tail(@),
                                        ![s].pc = "query"]
                /\ UNCHANGED <<master_skills, candidate_skills>>
    /\ UNCHANGED <<pipeline_vars, s3_vars, ui>>

\* Line 86: db.commit() writes the flushed rows and the links of every
\* skill of the payload.
SkillCommit(s) ==
    /\ sess[s].pc = "commit"
    /\ master_skills' = master_skills \cup {SkillRow(s, n) : n \in sess[s].flushed}
    /\ candidate_skills' =
         candidate_skills \cup
         {SkillLink(s, m) : m \in {x \in master_skills' :
                                     \E i \in 1..Len(sess[s].skills) :
                                        sess[s].skills[i] = x.skill_name}}
    /\ sess' = [sess EXCEPT ![s].pc = "committed", ![s].flushed = {}]
    /\ UNCHANGED <<pipeline_vars, s3_vars, ui>>

NextSkills ==
    \/ \E s \in Savers : SkillsBegin(s)
    \/ \E s \in Savers : SkillQuery(s)
    \/ \E s \in Savers : SkillInsert(s)
    \/ \E s \in Savers : SkillCommit(s)

SpecSkills == InitQuiet /\ [][NextSkills]_vars

\* ------------------------------------------------------------------------
\* SpecUI: the requests of ui_upload_resume, one at a time (the handler is
\* a coroutine that does not await between the file read and its response)
\* ------------------------------------------------------------------------
\* parsed.get('confidence', 90.0)
UIDefaultConfidence == 90
ui_confidence(p) == IF p.confidence = ABSENT THEN UIDefaultConfidence ELSE p.confidence
\* parsed.get('model_used', 'unknown'): parse_with_llm writes the key
\* "_model_used", never "model_used".
UnknownModel == "unknown"

\* The request has sent its response.
UIEnded == {"ok", "error"}

\* Lines 246-269: the upload to S3 and the text extraction, which raise
\* (the handler of line 323 answers with the error) or go on to the parser.
UIStart(q) ==
    /\ ui[q].pc = "idle"
    /\ \A o \in Requests \ {q} : ui[o].pc \in {"idle"} \cup UIEnded
    /\ Cardinality(rows) < NumResumes
    /\ \/ ui' = [ui EXCEPT ![q].pc = "error"]
       \/ ui' = [ui EXCEPT ![q].pc = "parse"]
    /\ UNCHANGED <<pipeline_vars, s3_vars, skill_vars>>

\* Line 274: parse_with_llm; whatever it returns is kept, a failure too.
UIParse(q) ==
    /\ ui[q].pc = "parse"
    /\ openai_client' = get_openai_client(openai_client, openai_api_key)
    /\ \E beh \in OrchBehaviours :
         LET ret == parse_with_llm(groq_client, openai_client', beh).value
         IN  ui' = [ui EXCEPT ![q].parsed = ret, ![q].pc = "resume"]
    /\ UNCHANGED <<cfg_vars, llm_vars, db_vars, thread_vars, s3_vars, skill_vars>>

\* Lines 278-293: the Resume row is added and committed.
UICommitResume(q) ==
    /\ ui[q].pc = "resume"
    /\ LET r == Cardinality(rows) + 1
       IN  /\ rows' = rows \cup {r}
           /\ processing_status' = [processing_status EXCEPT ![r] = "pending"]
           /\ candidate_id' = [candidate_id EXCEPT ![r] = NULL]
           /\ parsed_confidence' =
                [parsed_confidence EXCEPT ![r] = ui_confidence(ui[q].parsed)]
           /\ parsed_model' = [parsed_model EXCEPT ![r] = UnknownModel]
           /\ ui' = [ui EXCEPT ![q].row = r, ![q].pc = "save"]
    /\ UNCHANGED <<candidates, cfg_vars, openai_client, llm_vars, thread_vars, s3_vars,
                   skill_vars>>

\* Lines 298-335: save_parsed_candidate on the request's session.  It
\* commits the Candidate and the link, and the request answers with the
\* success page; or it raises (float(), the flush of a Candidate without a
\* name, which a failure of the parser is too, or int()), nothing more is
\* committed, and the handler of line 323 answers with the error.
UISave(q) ==
    /\ ui[q].pc = "save"
    /\ IF ui[q].parsed.fields = "ok"
       THEN /\ candidates' = candidates \cup {[id |-> q, resume_id |-> ui[q].row]}
            /\ candidate_id' = [candidate_id EXCEPT ![ui[q].row] = q]
            /\ parsed_confidence' =
                 [parsed_confidence EXCEPT ![ui[q].row] = PlaceholderConfidence]
            /\ parsed_model' = [parsed_model EXCEPT ![ui[q].row] = ui[q].parsed.model_used]
            /\ ui' = [ui EXCEPT ![q].pc = "ok"]
       ELSE /\ ui' = [ui EXCEPT ![q].pc = "error"]
            /\ UNCHANGED <<candidates, candidate_id, parsed_confidence, parsed_model>>
    /\ UNCHANGED <<rows, processing_status, cfg_vars, openai_client, llm_vars,
                   thread_vars, s3_vars, skill_vars>>

NextUI ==
    \/ \E q \in Requests : UIStart(q)
    \/ \E q \in Requests : UIParse(q)
    \/ \E q \in Requests : UICommitResume(q)
    \/ \E q \in Requests : UISave(q)

SpecUI == InitOrch /\ [][NextUI]_vars

\* ------------------------------------------------------------------------
\* Properties of the status state machine (Spec)
\* ------------------------------------------------------------------------
Terminal == {"completed", "failed"}
\* The run is over: it returned, or an exception left it.
Ended == {"done", "raised"}

\* The moves of pending -> processing -> {completed | failed}.
Forward(a, b) ==
    \/ a = b
    \/ a = "none" /\ b = "pending"
    \/ a = "pending" /\ b = "processing"
    \/ a = "processing" /\ b \in Terminal

\* C1: the committed status of every resume only moves forward along
\* pending -> processing -> {completed | failed}; it never returns to
\* pending and never leaves completed or failed.
C1_StatusMonotonic ==
    [][\A r \in ResumeIds : Forward(processing_status[r], processing_status'[r])]_vars

\* C2: a completed resume has a candidate, a confidence within [0,100] and
\* a model; a failed resume has no candidate.
C2_TerminalFields ==
    \A r \in rows :
        /\ processing_status[r] = "completed" =>
             /\ candidate_id[r] # NULL
             /\ parsed_confidence[r] # NULL
             /\ parsed_confidence[r] >= 0 /\ parsed_confidence[r] <= 100
             /\ parsed_model[r] # NoModel
        /\ processing_status[r] = "failed" => candidate_id[r] = NULL

\* C3: a pending or processing resume has no linked candidate.
C3_NoLinkBeforeCompleted ==
    \A r \in rows :
        processing_status[r] \in {"pending", "processing"} => candidate_id[r] = NULL

CandidatesOf(r) == {c \in candidates : c.resume_id = r}

\* C4: a completed resume stays completed when the orchestrator runs on it
\* again, and no resume ever has more than one Candidate made for it.
C4_RerunIsNoOp ==
    [][\A r \in ResumeIds :
         /\ processing_status[r] = "completed" => processing_status'[r] = "completed"
         /\ Cardinality(CandidatesOf(r)') <= 1]_vars

\* A pool smaller than the number of start_background_processing calls.
PoolSize == MaxRuns - 1
Processing == {r \in rows : processing_status[r] = "processing"}

\* C5: with a pool of PoolSize workers, at most PoolSize resumes are in
\* status processing at the same time.
C5_AtMostPoolSizeProcessing == Cardinality(Processing) <= PoolSize

\* C10: at the text check, a text that is empty or shorter than 50
\* characters once stripped ends the run with the status failed and without
\* a call of parse_with_llm; a text of 50 or more goes on to the parser, and
\* nothing else does.
C10_ShortTextSkipsParser ==
    [][\A t \in Threads :
         /\ (pc[t] = "check" /\ pc'[t] # "check") =>
              IF len(text[t]) = 0 \/ len(strip(text[t])) < 50
              THEN /\ pc'[t] \in Ended
                   /\ rid[t] \in rows => processing_status'[rid[t]] = "failed"
              ELSE pc'[t] = "parse"
         /\ (pc'[t] = "parse" /\ pc[t] # "parse") => pc[t] = "check"
         /\ pc[t] \in Ended => pc'[t] = pc[t]]_vars

\* A run on an uploaded resume ended at the text check, on a text of 49
\* characters once stripped, and a resume is failed.
C10_Witness ==
    \E t \in Threads :
        /\ pc[t] = "done"
        /\ text[t] = Txt(3, 49, 3)
        /\ \E r \in rows : processing_status[r] = "failed"

\* ------------------------------------------------------------------------
\* Properties of failure handling and of the events (Spec)
\* ------------------------------------------------------------------------
\* Thread t's run ends in this step.
RunEnds(t) == pc[t] \notin Ended /\ pc'[t] \in Ended

\* Thread t's run ends in this step by a failure: extraction raised, the
\* text was insufficient, the parser returned a failure, the save raised,
\* or the success event raised.
RunFails(t) ==
    /\ RunEnds(t)
    /\ \/ pc[t] \in {"extract", "check", "parse", "save"}
       \/ pc[t] = "log" /\ pc'[t] = "raised"

\* C11: when a run on an uploaded resume ends by a failure, the committed
\* status of the resume at the end of the run is failed.
C11_FailureEndsFailed ==
    [][\A t \in Threads :
         (RunFails(t) /\ rid[t] \in rows) => processing_status'[rid[t]] = "failed"]_vars

\* C12: no exception leaves process_resume_background.
C12_NoExceptionEscapes == \A t \in Threads : pc[t] # "raised"

\* save_parsed_candidate raises after it has added or flushed the Candidate.
SaveFailsPartWay(t) ==
    /\ pc[t] = "save"
    /\ parsed[t].fields \in {"no_full_name", "bad_grad_year"}
    /\ RunEnds(t)

\* C13: when save_parsed_candidate raises part-way, the run leaves the
\* resume failed and commits no Candidate.
C13_PartialSaveCommitsNothing ==
    [][\A t \in Threads :
         SaveFailsPartWay(t) =>
            /\ candidates' = candidates
            /\ rid[t] \in rows => processing_status'[rid[t]] = "failed"]_vars

\* The event that goes with a terminal status.
EventFor(status) == IF status = "completed" THEN "success" ELSE "failure"

\* C14: when a run on an uploaded resume ends and the resume is completed
\* or failed, the log holds the terminal event of that status for the
\* resume.
C14_TerminalEventEmitted ==
    [][\A t \in Threads :
         (/\ RunEnds(t)
          /\ rid[t] \in rows
          /\ processing_status'[rid[t]] \in Terminal)
         => [kind |-> EventFor(processing_status'[rid[t]]), resume_id |-> rid[t]]
              \in events']_vars

\* C15: once the run has committed its outcome, the rest of the run, the
\* terminal event included whether it is written or raises, leaves the
\* status, the link, the confidence and the model as committed.
C15_EventLeavesRowUnchanged ==
    [][\A t \in Threads :
         (pc[t] = "log" /\ RunEnds(t)) =>
            UNCHANGED <<processing_status, candidate_id, parsed_confidence,
                        parsed_model>>]_vars

\* ------------------------------------------------------------------------
\* Properties of the threads (Spec)
\* ------------------------------------------------------------------------
\* Thread t is inside process_resume_background.
Running(t) == pc[t] \notin {"idle"} \cup Ended

\* C16: no two threads are inside process_resume_background for the same
\* resume at the same time.
C16_OneThreadPerResume ==
    \A t, u \in Threads :
        (t # u /\ Running(t) /\ Running(u) /\ rid[t] \in rows) => rid[t] # rid[u]

\* Extraction has started and the run has not yet committed completed.
PastExtractionStart(t) == pc[t] \in {"check", "parse", "save", "complete"}

\* C17: while a run is between the start of its extraction and its commit
\* of completed, the status the table holds for its resume is processing
\* or failed.
C17_ProcessingStoredBeforeExtraction ==
    \A t \in Threads :
        (PastExtractionStart(t) /\ rid[t] \in rows)
        => stored_status(rid[t]) \in {"processing", "failed"}

\* C18: a row that upload_resume has committed and no run has touched holds
\* the status pending.
C18_UploadStoresPending ==
    \A r \in rows : processing_status[r] = "pending" => stored_status(r) = "pending"

\* C19: start_background_processing accepts every resume id, whatever the
\* state of the resume; the call leaves the new thread in front of its first
\* step and changes neither the database, the log nor any other thread.
C19_StartReturnsAtOnce ==
    [][/\ \A r \in rows \cup {MissingId} :
            started < MaxRuns => ENABLED StartBackgroundProcessing(r)
       /\ \A t \in Threads :
            (pc[t] = "idle" /\ pc'[t] # "idle") =>
               /\ pc'[t] = "begin"
               /\ \A u \in Threads \ {t} : pc'[u] = pc[u]
               /\ UNCHANGED <<db_vars, events>>]_vars

\* start_background_processing was called twice for one uploaded resume:
\* two threads in front of their first step, the resume still pending.
C19_Witness ==
    \E t, u \in Threads :
        /\ t # u
        /\ pc[t] = "begin" /\ pc[u] = "begin"
        /\ rid[t] = rid[u] /\ rid[t] \in rows
        /\ processing_status[rid[t]] = "pending"

\* The steps of a run, in the order of the code.
StepOrder == <<"begin", "extract", "check", "parse", "save", "complete", "log">>

\* C20: a thread takes the steps of its run one after the other, each from
\* the end of the one before or not at all: the text is set by the
\* extraction step only, the parser's payload by the parse step only, and
\* a Candidate of the run is written by the save step only.
C20_StepsInOrder ==
    [][\A t \in Threads :
         /\ pc'[t] # pc[t] =>
              \/ pc[t] = "idle" /\ pc'[t] = StepOrder[1]
              \/ \E i \in 1..(Len(StepOrder) - 1) :
                    pc[t] = StepOrder[i] /\ pc'[t] = StepOrder[i + 1]
              \/ Running(t) /\ pc'[t] \in Ended
         /\ (text'[t] # text[t] /\ text'[t] # NoText) => pc[t] = "extract"
         /\ (parsed'[t] # parsed[t] /\ parsed'[t] # NoParsed) => pc[t] = "parse"
         /\ (\E c \in candidates' \ candidates : c.id = t) => pc[t] = "save"]_vars

\* A run has gone through extraction, parser and save: its Candidate is
\* written and it stands before the commit of completed.
C20_Witness ==
    \E t \in Threads :
        /\ pc[t] = "complete"
        /\ cand[t] = t
        /\ \E c \in candidates : c.id = t /\ c.resume_id = rid[t]

\* ------------------------------------------------------------------------
\* Properties of the confidence and of a run without a row (Spec)
\* ------------------------------------------------------------------------
\* Thread t's step commits a parsed_confidence for its resume: the save
\* that links the row, or the `if resume:` block that completes it.
CommitsConfidence(t) ==
    /\ rid[t] \in rows
    /\ \/ pc[t] = "save" /\ pc'[t] = "complete"
       \/ pc[t] = "complete" /\ pc'[t] = "log" /\ resume[t]

\* The one default of a provider tier: the value the orchestrator assigns to
\* a payload without a confidence, whichever tier produced it.
TierDefault(model) == DefaultConfidence

\* C21: every parsed_confidence a run commits is the confidence of the
\* payload when the payload carries one, and otherwise the one default of
\* the tier that produced the payload.
C21_ConfidencePassedThrough ==
    [][\A t \in Threads :
         CommitsConfidence(t) =>
            parsed_confidence'[rid[t]] =
               IF parsed[t].confidence # ABSENT
               THEN parsed[t].confidence
               ELSE TierDefault(parsed[t].model_used)]_vars

\* C30: a run for an id that has no resumes row commits no Candidate and
\* writes no success event.
C30_MissingRowLeavesNothing ==
    /\ \A c \in candidates : c.resume_id # MissingId
    /\ [kind |-> "success", resume_id |-> MissingId] \notin events

\* C24: a resume whose status a run has committed as processing reaches
\* completed or failed.
C24_ProcessingEventuallyEnds ==
    \A r \in ResumeIds :
        (processing_status[r] = "processing") ~> (processing_status[r] \in Terminal)

\* ------------------------------------------------------------------------
\* Properties of parse_with_llm (SpecLLM)
\* ------------------------------------------------------------------------
\* The class of the outcome of an API call: a timeout is transient; an
\* authentication failure, or a body that is not JSON once cleaned, is
\* permanent.
Kind(out) ==
    IF out.api = "timeout" THEN "transient"
    ELSE IF out.api = "auth" THEN "permanent"
    ELSE IF json_loads_ok(clean_json(out.body)) THEN "ok"
    ELSE "permanent"

CallsTo(p) == {i \in 1..Len(llm_calls) : llm_calls[i].provider = p}
ProviderIndex(p) == CHOOSE i \in 1..3 : ProviderOrder[i] = p
Configured(p) == IF p = OpenAIMini THEN openai_api_key ELSE groq_client
PastFirstProvider == llm_pc \in {"groq70b", "openai", "returned"}

\* C6: when every call to Groq 8B times out, it is called exactly 3 times,
\* these are the first three calls, and the fourth call is the first call
\* to Groq 70B.
C6_TransientRetriedThrice ==
    (/\ groq_client
     /\ PastFirstProvider
     /\ \A i \in CallsTo(Groq8B) : llm_calls[i].out.api = "timeout")
    => /\ CallsTo(Groq8B) = 1..3
       /\ llm_pc \in {"openai", "returned"} => 4 \in CallsTo(Groq70B)

\* Three timeouts of Groq 8B, then the first call to Groq 70B.
C6_Witness ==
    /\ Len(llm_calls) >= 4
    /\ \A i \in 1..3 : llm_calls[i].provider = Groq8B /\ llm_calls[i].out = Timeout
    /\ llm_calls[4].provider = Groq70B

\* C7: when the first call to Groq 8B fails with a permanent error (an
\* authentication failure, or a body that is not JSON once the fences are
\* stripped), Groq 8B is called exactly once.
C7_PermanentNotRetried ==
    (/\ groq_client
     /\ PastFirstProvider
     /\ Kind(llm_calls[1].out) = "permanent")
    => CallsTo(Groq8B) = {1}

TriedAndFailed(p) ==
    /\ CallsTo(p) # {}
    /\ \A i \in CallsTo(p) : Kind(llm_calls[i].out) # "ok"

\* C8: parse_with_llm returns "no clients" exactly when neither client is
\* configured, and "all failed" exactly when a client is configured and
\* every configured provider was called and failed.
C8_FailureKinds ==
    llm_pc = "returned" =>
        /\ llm_ret.error = ErrNoClients <=> (~groq_client /\ ~openai_api_key)
        /\ llm_ret.error = ErrAllFailed <=>
             /\ groq_client \/ openai_api_key
             /\ \A i \in 1..3 :
                  Configured(ProviderOrder[i]) => TriedAndFailed(ProviderOrder[i])

\* Every provider configured, nine failed calls, "all failed" returned.
C8_Witness ==
    /\ llm_pc = "returned"
    /\ llm_ret.error = ErrAllFailed
    /\ Len(llm_calls) = 9

\* The JSON object of a response body.
ObjectOf(out) == out.body[CHOOSE i \in 1..Len(out.body) : out.body[i].k = "object"].v

\* C9: the calls go to Groq 8B, then Groq 70B, then OpenAI; a call that
\* succeeds is the last call, and its object, tagged with the provider and
\* model that was called, is what parse_with_llm returns.
C9_FirstSuccessReturned ==
    /\ \A i, j \in 1..Len(llm_calls) :
         i < j => ProviderIndex(llm_calls[i].provider) <= ProviderIndex(llm_calls[j].provider)
    /\ CallsTo(Groq70B) # {} => CallsTo(Groq8B) # {}
    /\ (CallsTo(OpenAIMini) # {} /\ groq_client) => CallsTo(Groq70B) # {}
    /\ \A i \in 1..Len(llm_calls) :
         Kind(llm_calls[i].out) = "ok" =>
            /\ i = Len(llm_calls)
            /\ llm_pc = "returned"
            /\ llm_ret = [error |-> "",
                          model_used |-> llm_calls[i].provider,
                          confidence |-> ObjectOf(llm_calls[i].out).confidence,
                          fields |-> ObjectOf(llm_calls[i].out).fields]
    /\ (llm_pc = "returned" /\ llm_ret.error = "") =>
         /\ llm_calls # <<>>
         /\ Kind(llm_calls[Len(llm_calls)].out) = "ok"

\* Six failed Groq calls, then OpenAI answers inside a fence on its third call.
C9_Witness ==
    /\ llm_pc = "returned"
    /\ Len(llm_calls) = 9
    /\ llm_calls[9].out = Resp(FencedBody(D2))
    /\ llm_ret.model_used = OpenAIMini

\* The object has the fields of the prompt's template.
Conforms(d) == d.fields # "no_full_name"

\* C22: parse_with_llm returns a success only for a response whose cleaned
\* body is a JSON object with the expected fields; a call answered with an
\* object that lacks them is a failed attempt, never the call that returns.
C22_SuccessConforms ==
    /\ (llm_pc = "returned" /\ llm_ret.error = "") => Conforms(llm_ret)
    /\ \A i \in 1..Len(llm_calls) :
         (Kind(llm_calls[i].out) = "ok" /\ ~Conforms(ObjectOf(llm_calls[i].out)))
         => (i < Len(llm_calls) \/ llm_pc # "returned" \/ llm_ret.error # "")

\* C23: a call of parse_with_llm makes at most 3 calls to each provider and
\* model, at most 9 calls in total, and returns.
C23_BoundedCallsThenReturns ==
    /\ [](/\ Len(llm_calls) <= 9
          /\ \A i \in 1..3 : Cardinality(CallsTo(ProviderOrder[i])) <= 3)
    /\ <>(llm_pc = "returned")

\* The call has returned after three calls to each of the three providers.
C23_Witness ==
    /\ llm_pc = "returned"
    /\ \A i \in 1..3 : Cardinality(CallsTo(ProviderOrder[i])) = 3

\* ------------------------------------------------------------------------
\* Properties of the S3LogHandler (SpecS3)
\* ------------------------------------------------------------------------
\* Thread p is inside the _flush_buffer call of an emit.
EmitFlushes(p) == p \in Emitters /\ s3_pc[p] \in {"flush_check", "flush_lock"}

\* C25: an emit whose record has brought the buffer to batch_size goes on:
\* it is never unable to take the step that uploads the batch, clears the
\* buffer and returns.
C25_EmitAtBatchSizeFlushes ==
    \A e \in Emitters : EmitFlushes(e) => ENABLED S3Step(e)

\* Thread p waits to acquire buffer_lock.
WaitsForLock(p) == s3_pc[p] \in {"emit_lock", "bg_lock", "flush_lock"}

\* C26: a thread that holds buffer_lock is never itself waiting for
\* buffer_lock, so every thread that waits for it gets it in the end.
C26_NoThreadWaitsForever ==
    \A p \in S3Procs : buffer_lock = p => ~WaitsForLock(p)

Range(q) == {q[i] : i \in 1..Len(q)}

\* C27: a record leaves the buffer only in a step whose put_object
\* succeeded on a batch that contains it; a put_object that raises leaves
\* the buffer as it was; no record is in two uploaded batches.
C27_BufferKeptUntilUploaded ==
    [][/\ \A x \in Range(log_buffer) \ Range(log_buffer') :
            /\ Len(s3_puts') = Len(s3_puts) + 1
            /\ s3_puts'[Len(s3_puts')].ok
            /\ x \in Range(s3_puts'[Len(s3_puts')].batch)
       /\ (Len(s3_puts') > Len(s3_puts) /\ ~s3_puts'[Len(s3_puts')].ok)
            => log_buffer' = log_buffer
       /\ \A i, j \in 1..Len(s3_puts') :
            (i < j /\ s3_puts'[i].ok /\ s3_puts'[j].ok)
            => Range(s3_puts'[i].batch) \cap Range(s3_puts'[j].batch) = {}]_vars

\* A put_object of record 1 raised, the record stayed in the buffer, and a
\* later put_object uploaded it and emptied the buffer.
C27_Witness ==
    /\ Len(s3_puts) = 2
    /\ ~s3_puts[1].ok /\ 1 \in Range(s3_puts[1].batch)
    /\ s3_puts[2].ok /\ 1 \in Range(s3_puts[2].batch)
    /\ log_buffer = <<>>

\* ------------------------------------------------------------------------
\* Properties of the skills loop (SpecSkills)
\* ------------------------------------------------------------------------
\* C28: no save_parsed_candidate fails over a skill another session is
\* adding; every skill name has at most one master_skills row, and every
\* committed save is linked to the row of each of its skills.
C28_SharedSkillBothCommit ==
    /\ \A s \in Savers : sess[s].pc # "raised"
    /\ \A n \in SkillNames : Cardinality({m \in master_skills : m.skill_name = n}) <= 1
    /\ \A s \in Savers :
         sess[s].pc = "committed" =>
            \A n \in Range(sess[s].skills) :
               \E m \in master_skills :
                  m.skill_name = n /\ SkillLink(s, m) \in candidate_skills

\* ------------------------------------------------------------------------
\* Properties of ui_upload_resume (SpecUI)
\* ------------------------------------------------------------------------
\* C29: a request whose parse_with_llm returned a failure answers with an
\* error, and has committed neither a Resume row nor a Candidate.
C29_ParseFailureCommitsNothing ==
    \A q \in Requests :
        (ui[q].pc \in UIEnded /\ ui[q].parsed.error # "") =>
           /\ ui[q].pc = "error"
           /\ ui[q].row = NULL
           /\ \A c \in candidates : c.id # q

====
